---- MODULE Spec2Model ----
(***************************************************************************)
(* docker-backup: the backup command (backup, backupAll, backupTar,        *)
(* getFullImageName) and the restore command (restoreCmd, restore,         *)
(* restoreTar, createContainer, startContainer) as one state machine over  *)
(* a working directory and a container runtime.                            *)
(*                                                                         *)
(* Strings are sequences of one-character strings; an artifact's bytes are *)
(* a sequence of JSON tokens; a Go pointer is <<>> (nil) or <<v>>.         *)
(***************************************************************************)
EXTENDS Integers, Sequences, FiniteSets, TLC

\* ------------------------------------------------------------------ bounds

\* containers the runtime lists for backup --all
MaxContainers == 2
\* command invocations in one behaviour, sharing the working directory
MaxRuns == 2
\* entries of a tar archive that the tool did not write itself
MaxEntries == 2
\* entries of the image catalog
MaxImages == 2

\* ------------------------------------------------------- package "strings"

HasSuffix(s, suffix) ==
    /\ Len(s) >= Len(suffix)
    /\ SubSeq(s, Len(s) - Len(suffix) + 1, Len(s)) = suffix

Contains(s, substr) ==
    \E i \in 1..(Len(s) - Len(substr) + 1) :
        SubSeq(s, i, i + Len(substr) - 1) = substr

RECURSIVE Replace(_, _, _)
\* strings.Replace(s, old, new, -1) for a non-empty old
Replace(s, old, new) ==
    IF Len(s) < Len(old) THEN s
    ELSE IF SubSeq(s, 1, Len(old)) = old
         THEN new \o Replace(SubSeq(s, Len(old) + 1, Len(s)), old, new)
         ELSE <<s[1]>> \o Replace(Tail(s), old, new)

RECURSIVE Split(_, _)
\* strings.Split(s, sep) for a one-character sep: always at least one part
Split(s, sep) ==
    IF \A i \in 1..Len(s) : s[i] # sep THEN <<s>>
    ELSE LET i == CHOOSE k \in 1..Len(s) :
                      s[k] = sep /\ \A j \in 1..(k - 1) : s[j] # sep
         IN  <<SubSeq(s, 1, i - 1)>> \o Split(SubSeq(s, i + 1, Len(s)), sep)

RECURSIVE Flatten(_)
Flatten(ss) == IF ss = <<>> THEN <<>> ELSE Head(ss) \o Flatten(Tail(ss))

\* ------------------------------------------------------- the Backup record

Nil == <<>>
Ptr(v) == <<v>>

Backup(name, config, hostConfig, networkSettings, platform) ==
    [Name |-> name, Config |-> config, HostConfig |-> hostConfig,
     NetworkSettings |-> networkSettings, Platform |-> platform]

\* var backup Backup: every field at its zero value
ZeroBackup == Backup(<<>>, Nil, Nil, Nil, <<>>)

\* network names in the order encoding/json writes map keys (sorted)
NetNames == <<"bridge", "mynet">>
HostConfigs == {"h1", "h2"}
Endpoints == {"e1", "e2"}

\* ------------------------------------------------- json.MarshalIndent

\* a JSON string literal: quote and backslash are escaped
EncStr(s) ==
    <<"\"">>
    \o Flatten([i \in 1..Len(s) |->
                  IF s[i] \in {"\"", "\\"} THEN <<"\\", s[i]>> ELSE <<s[i]>>])
    \o <<"\"">>

EncConfig(p) ==
    IF p = Nil THEN <<"null">>
    ELSE <<"{", "Image">> \o EncStr(p[1].Image) \o <<"}">>

EncHostConfig(p) ==
    IF p = Nil THEN <<"null">> ELSE <<"{", p[1], "}">>

EncNetworks(p) ==
    IF p = Nil THEN <<"null">>
    ELSE <<"{">>
         \o Flatten([i \in 1..Len(NetNames) |->
                       IF NetNames[i] \in DOMAIN p[1]
                       THEN <<NetNames[i], p[1][NetNames[i]]>> ELSE <<>>])
         \o <<"}">>

EncNetworkSettings(p) ==
    IF p = Nil THEN <<"null">>
    ELSE <<"{", "Networks">> \o EncNetworks(p[1].Networks) \o <<"}">>

\* the five keys in the order the struct declares them
Marshal(backup) ==
    <<"{">>
    \o <<"Name">> \o EncStr(backup.Name)
    \o <<"Config">> \o EncConfig(backup.Config)
    \o <<"HostConfig">> \o EncHostConfig(backup.HostConfig)
    \o <<"NetworkSettings">> \o EncNetworkSettings(backup.NetworkSettings)
    \o <<"Platform">> \o EncStr(backup.Platform)
    \o <<"}">>

\* ------------------------------------------------------ json.Unmarshal

\* a parse result: ok, the value v, and the index n of the next token
Parsed(v, n) == [ok |-> TRUE, v |-> v, n |-> n]
Failed == [ok |-> FALSE, v |-> <<>>, n |-> 0]

At(b, i) == IF i \in 1..Len(b) THEN b[i] ELSE "EOF"

RECURSIVE DecStrBody(_, _, _)
DecStrBody(b, i, acc) ==
    IF At(b, i) = "EOF" THEN Failed
    ELSE IF b[i] = "\"" THEN Parsed(acc, i + 1)
    ELSE IF b[i] = "\\"
         THEN IF At(b, i + 1) \in {"\"", "\\"}
              THEN DecStrBody(b, i + 2, Append(acc, b[i + 1]))
              ELSE Failed
    ELSE IF b[i] \in {"{", "}", "null"} THEN Failed
    ELSE DecStrBody(b, i + 1, Append(acc, b[i]))

DecStr(b, i) ==
    IF At(b, i) = "\"" THEN DecStrBody(b, i + 1, <<>>) ELSE Failed

DecConfig(b, i) ==
    IF At(b, i) = "null" THEN Parsed(Nil, i + 1)
    ELSE IF At(b, i) = "{" /\ At(b, i + 1) = "Image"
         THEN LET s == DecStr(b, i + 2)
              IN  IF s.ok /\ At(b, s.n) = "}"
                  THEN Parsed(Ptr([Image |-> s.v]), s.n + 1)
                  ELSE Failed
    ELSE Failed

DecHostConfig(b, i) ==
    IF At(b, i) = "null" THEN Parsed(Nil, i + 1)
    ELSE IF At(b, i) = "{" /\ At(b, i + 1) \in HostConfigs /\ At(b, i + 2) = "}"
         THEN Parsed(Ptr(b[i + 1]), i + 3)
    ELSE Failed

RECURSIVE DecNetworkEntries(_, _, _)
DecNetworkEntries(b, i, m) ==
    IF At(b, i) = "}" THEN Parsed(Ptr(m), i + 1)
    ELSE IF At(b, i) \in {NetNames[k] : k \in 1..Len(NetNames)}
            /\ At(b, i + 1) \in Endpoints
         THEN DecNetworkEntries(b, i + 2, (b[i] :> b[i + 1]) @@ m)
    ELSE Failed

DecNetworks(b, i) ==
    IF At(b, i) = "null" THEN Parsed(Nil, i + 1)
    ELSE IF At(b, i) = "{" THEN DecNetworkEntries(b, i + 1, <<>>)
    ELSE Failed

DecNetworkSettings(b, i) ==
    IF At(b, i) = "null" THEN Parsed(Nil, i + 1)
    ELSE IF At(b, i) = "{" /\ At(b, i + 1) = "Networks"
         THEN LET m == DecNetworks(b, i + 2)
              IN  IF m.ok /\ At(b, m.n) = "}"
                  THEN Parsed(Ptr([Networks |-> m.v]), m.n + 1)
                  ELSE Failed
    ELSE Failed

RECURSIVE DecFields(_, _, _)
\* the members of the top-level object, in any order, into the fields of rec
DecFields(b, i, rec) ==
    LET key == At(b, i)
        val == CASE key = "Name" -> DecStr(b, i + 1)
                 [] key = "Config" -> DecConfig(b, i + 1)
                 [] key = "HostConfig" -> DecHostConfig(b, i + 1)
                 [] key = "NetworkSettings" -> DecNetworkSettings(b, i + 1)
                 [] key = "Platform" -> DecStr(b, i + 1)
                 [] OTHER -> Failed
    IN  IF key = "}" THEN (IF i = Len(b) THEN Parsed(rec, i + 1) ELSE Failed)
        ELSE IF ~val.ok THEN Failed
        ELSE DecFields(b, val.n, [rec EXCEPT ![key] = val.v])

\* json.Unmarshal(b, &backup) into a zero Backup: [ok, v]
Unmarshal(b) ==
    IF b = <<"null">> THEN Parsed(ZeroBackup, 2)
    ELSE IF At(b, 1) = "{" THEN DecFields(b, 2, ZeroBackup)
    ELSE Failed

\* ------------------------------------------------------------ the world

\* the containers of the runtime: "1", "2", ...
ContainerIDs == [k \in 1..MaxContainers |-> ToString(k)]
\* an argument that names no container
UnknownID == "zz"

\* image references as containers store them: untagged, and tagged
ImageRefs == << <<"n", "i">>, <<"i", ":", "t">> >>

\* what ContainerInspect answers for the k-th container
Inspected(k) ==
    [ID |-> ContainerIDs[k],
     Name |-> <<"/", "w", "\\", ContainerIDs[k]>>,
     Config |-> Ptr([Image |-> ImageRefs[(k % 2) + 1]]),
     HostConfig |-> Ptr(IF k % 2 = 1 THEN "h1" ELSE "h2"),
     NetworkSettings |->
         IF k % 2 = 1 THEN Nil
         ELSE Ptr([Networks |-> Ptr(("bridge" :> "e1") @@ ("mynet" :> "e2"))]),
     Platform |-> <<"l">>]

IndexOf(ID) == CHOOSE k \in 1..MaxContainers : ContainerIDs[k] = ID

\* the answers of ContainerList: the containers, or some of them, in any order
Listings ==
    {l \in UNION {[1..n -> 1..MaxContainers] : n \in 0..MaxContainers} :
        \A x, y \in 1..Len(l) : x # y => l[x] # l[y]}

\* the image catalog: entries of ImageList
TagNI == <<"n", "i", ":", "t">>
TagNIU == <<"n", "i", ":", "u">>
TagQ == <<"q", ":", "t">>
RepoTagLists == {<<>>, <<TagQ>>, <<TagQ, TagNI>>, <<TagNIU, TagNI>>}
ImageIDs == {<<"i">>, <<"n">>, <<"x">>}
ImageSummaries == [ID : ImageIDs, RepoTags : RepoTagLists]
\* an image is listed once
Catalogs ==
    {c \in UNION {[1..n -> ImageSummaries] : n \in 0..MaxImages} :
        \A x, y \in 1..Len(c) : x # y => c[x].ID # c[y].ID}

\* --launch templates; <<>> is the flag's default ""
TplNotify ==
    <<"n", " ", "%", "t", "a", "g", " ", "%", "l", "i", "s", "t",
      " ", "%", "t", "a", "g">>
Templates == {<<>>, TplNotify}

\* ------------------------------------------------------------ the files

PlainFile(data) == [kind |-> "plain", data |-> data, entries |-> <<>>, tail |-> ""]
\* a tar stream: its entries and what follows the last one: "open" (nothing,
\* not even the entry's padding), "padded" (padding, no trailer), "closed"
\* (padding and trailer) or "garbage" (bytes that are no header)
TarFile(entries, tail) == [kind |-> "tar", data |-> <<>>, entries |-> entries, tail |-> tail]
TarEntry(name, size, data) == [name |-> name, size |-> size, data |-> data]

ExtJSON == <<".backup", ".json">>
ExtFiles == <<".backup", ".files">>
ExtTar == <<".tar">>

\* records of artifacts the tool did not write
ForeignRecords ==
    {Backup(<<"/", "w">>, Ptr([Image |-> <<"n">>]), Ptr("h1"),
            Ptr([Networks |-> Ptr(("bridge" :> "e1"))]), <<"l">>),
     Backup(<<"a", "/", "b">>, Ptr([Image |-> <<"n">>]), Ptr("h2"), Nil, <<>>),
     Backup(<<"w", "/">>, Nil, Nil, Ptr([Networks |-> Nil]), <<"l">>)}
Garbage == <<"{", "Name", "x">>
ForeignPayloads == {Marshal(r) : r \in ForeignRecords} \cup {Garbage, <<"null">>}
ForeignEntries ==
    {TarEntry("container.json", Len(p), p) : p \in ForeignPayloads}
    \cup {TarEntry("other", 1, <<"x">>)}
ForeignTars ==
    {TarFile(es, t) :
        es \in UNION {[1..n -> ForeignEntries] : n \in 0..MaxEntries},
        t \in {"closed", "garbage"}}
ForeignJSONs == {PlainFile(p) : p \in ForeignPayloads \cup {<<>>}}

\* ------------------------------------------------------------ the state

VARIABLES
    run,        \* command invocations so far
    cmd,        \* the running command: "backup", "restore" or "none"
    pc,         \* where the command stands
    optAll, optTar, optLaunch, optStart,   \* the flags
    args,       \* the command's arguments
    disk,       \* the working directory: file name -> file
    containers, \* backupAll: the listed container IDs
    i,          \* backupAll: the index of the container in the loop (0: none)
    ID,         \* backup: the container asked for
    conf,       \* backup: the inspected container, Nil before
    catalog,    \* the runtime's image catalog while getFullImageName runs
    imageName,  \* getFullImageName: its argument
    filename,   \* backup: the file name stem; restore: the file to read
    backup,     \* the Backup record, written or read
    b,          \* the JSON payload
    tr,         \* restoreTar: tar entries consumed by tr.Next
    id,         \* restore: the created container's ID
    cstate,     \* the created container: "none", "created", "running"
    calls,      \* this command's runtime calls and their outcomes
    launched,   \* this command's external commands and their outcomes
    stdout,     \* this command's "Created backup:" lines
    err,        \* the error backup(ID) returns ("nil": none)
    result,     \* the error the command returns ("none": still running)
    written,    \* history: file name -> Backup of each artifact written in full
    file        \* restore: the file at the path given, Nil if there is none

vars == <<run, cmd, pc, optAll, optTar, optLaunch, optStart, args, disk, file,
          containers, i, ID, conf, catalog, imageName, filename, backup, b,
          tr, id, cstate, calls, launched, stdout, err, result, written>>

flags == <<optAll, optTar, optLaunch, optStart, args>>
batch == <<containers, i>>
restoring == <<tr, id, cstate, file>>

Init ==
    /\ run = 0 /\ cmd = "none" /\ pc = "idle"
    /\ optAll = FALSE /\ optTar = FALSE /\ optLaunch = <<>> /\ optStart = FALSE
    /\ args = <<>>
    /\ disk = <<>>
    /\ containers = <<>> /\ i = 0 /\ ID = ""
    /\ conf = Nil /\ catalog = <<>> /\ imageName = <<>>
    /\ filename = <<>> /\ backup = ZeroBackup /\ b = <<>>
    /\ tr = 0 /\ id = "" /\ cstate = "none"
    /\ calls = <<>> /\ launched = <<>> /\ stdout = <<>>
    /\ err = "nil" /\ result = "none"
    /\ written = <<>> /\ file = Nil

\* a fresh process: the package variables and locals at their initial values
Fresh ==
    /\ containers' = <<>> /\ i' = 0
    /\ conf' = Nil /\ catalog' = <<>> /\ imageName' = <<>>
    /\ backup' = ZeroBackup /\ b' = <<>>
    /\ tr' = 0 /\ id' = "" /\ cstate' = "none"
    /\ calls' = <<>> /\ launched' = <<>> /\ stdout' = <<>>
    /\ err' = "nil"

Put(name, content) == (name :> content) @@ disk
Forget(name) == [f \in DOMAIN written \ {name} |-> written[f]]
Call(op, ok, target) == [op |-> op, ok |-> ok, id |-> target, input |-> Nil]

\* ----------------------------------------------------------- backup

\* backupCmd.RunE. A behaviour is one backup in an empty working directory
\* and the restores that follow it, or restores alone.
InvokeBackup ==
    /\ pc \in {"idle", "done"} /\ run = 0
    /\ run' = run + 1 /\ cmd' = "backup"
    /\ \E all \in BOOLEAN, t \in BOOLEAN, l \in Templates,
          a \in {<<>>} \cup {<<ContainerIDs[k]>> : k \in 1..MaxContainers}
                \cup {<<UnknownID>>} :
          /\ all => a = <<>>
          /\ optAll' = all /\ optTar' = t /\ optLaunch' = l /\ args' = a
          /\ optStart' = FALSE
          /\ IF all
             THEN pc' = "backupAll" /\ result' = "none" /\ ID' = ""
             ELSE IF Len(a) < 1
             THEN pc' = "done" /\ ID' = ""
                  /\ result' = "backup requires the ID of a container"
             ELSE pc' = "backup" /\ result' = "none" /\ ID' = a[1]
    /\ Fresh /\ filename' = <<>> /\ file' = Nil
    /\ UNCHANGED <<disk, written>>

\* backupAll: cli.ContainerList
BackupAllList ==
    /\ pc = "backupAll"
    /\ \/ /\ pc' = "done" /\ result' = "panic"
          /\ calls' = Append(calls, Call("list", FALSE, ""))
          /\ UNCHANGED <<containers, i, ID>>
       \/ \E l \in Listings :
            /\ containers' = [k \in 1..Len(l) |-> ContainerIDs[l[k]]]
            /\ calls' = Append(calls, Call("list", TRUE, ""))
            /\ IF Len(l) = 0
               THEN pc' = "done" /\ result' = "nil" /\ i' = 0 /\ ID' = ID
               ELSE pc' = "backup" /\ result' = result /\ i' = 1
                    /\ ID' = ContainerIDs[l[1]]
    /\ UNCHANGED <<run, cmd, flags, disk, conf, catalog, imageName, filename,
                   backup, b, restoring, launched, stdout, err, written>>

\* backup: cli.ContainerInspect, paths = []string{}, and the image catalog
\* as it stands when getFullImageName is called. (The runtime's names and
\* IDs are long enough for conf.Name[1:] and conf.ID[:12].)
BackupInspect ==
    /\ pc = "backup"
    /\ \/ /\ calls' = Append(calls, Call("inspect", FALSE, ID))
          /\ pc' = "return" /\ err' = "inspect failed"
          /\ UNCHANGED <<conf, imageName, catalog>>
       \/ /\ \E k \in 1..MaxContainers : ContainerIDs[k] = ID
          /\ calls' = Append(calls, Call("inspect", TRUE, ID))
          /\ conf' = Ptr(Inspected(IndexOf(ID)))
          /\ imageName' = Inspected(IndexOf(ID)).Config[1].Image
          /\ \E c \in Catalogs : catalog' = c
          /\ pc' = "getFullImageName" /\ err' = err
    /\ UNCHANGED <<run, cmd, flags, disk, batch, ID, filename, backup, b,
                   restoring, launched, stdout, result, written>>

RECURSIVE ScanImagesFirstTag(_, _)
\* mutant: the first tag of the matching image, closer tags not looked for
ScanImagesFirstTag(name, images) ==
    IF images = <<>> THEN name
    ELSE IF ~Contains(name, Head(images).ID) \/ Len(Head(images).RepoTags) = 0
         THEN ScanImagesFirstTag(name, Tail(images))
         ELSE Head(images).RepoTags[1]

\* the loop of getFullImageName over the ImageList answer
RECURSIVE ScanImages(_, _)
ScanImages(name, images) ==
    IF images = <<>> THEN name
    ELSE LET image == Head(images)
             match == {k \in 1..Len(image.RepoTags) :
                          Contains(image.RepoTags[k], name)}
         IN  IF ~Contains(name, image.ID) \/ Len(image.RepoTags) = 0
             THEN ScanImages(name, Tail(images))
             ELSE IF match # {}
                  THEN image.RepoTags[CHOOSE k \in match :
                                          \A j \in match : k <= j]
                  ELSE image.RepoTags[1]

SetImage(c, image) == Ptr([c[1] EXCEPT !.Config = Ptr([Image |-> image])])

\* getFullImageName: conf.Config.Image, err = getFullImageName(conf.Config.Image)
GetFullImageName ==
    /\ pc = "getFullImageName"
    /\ \/ /\ Contains(imageName, <<":">>)
          /\ conf' = SetImage(conf, imageName)
          /\ pc' = "write" /\ UNCHANGED <<calls, err>>
       \/ /\ ~Contains(imageName, <<":">>)
          /\ calls' = Append(calls, Call("images", FALSE, ""))
          /\ conf' = SetImage(conf, imageName)
          /\ pc' = "return" /\ err' = "image list failed"
       \/ /\ ~Contains(imageName, <<":">>)
          /\ calls' = Append(calls, Call("images", TRUE, ""))
          /\ conf' = SetImage(conf, ScanImages(imageName, catalog))
          /\ pc' = "write" /\ UNCHANGED err
    /\ UNCHANGED <<run, cmd, flags, disk, batch, ID, catalog, imageName,
                   filename, backup, b, restoring, launched, stdout, result,
                   written>>

\* sanitize.Path on the characters of the model: separators become "-",
\* characters illegal in a path are dropped, "/" stays
Sanitize(s) ==
    Flatten([k \in 1..Len(s) |->
               IF s[k] \in {":", " ", "_"} THEN <<"-">>
               ELSE IF s[k] \in {"%", "\"", "\\"} THEN <<>>
               ELSE <<s[k]>>])

Stem(image, container) ==
    Replace(Sanitize(image \o <<"-", container>>), <<"/">>, <<"_">>)

\* backup: the Backup record and the file name
BackupAssemble ==
    /\ pc = "write"
    /\ backup' = Backup(conf[1].Name, conf[1].Config, conf[1].HostConfig,
                        conf[1].NetworkSettings, conf[1].Platform)
    /\ filename' = Stem(conf[1].Config[1].Image, ID)
    /\ catalog' = <<>>
    /\ pc' = IF optTar THEN "backupTar" ELSE "writeJSON"
    /\ UNCHANGED <<run, cmd, flags, disk, batch, ID, conf, imageName, b,
                   restoring, calls, launched, stdout, err, result, written>>

\* ----------------------------------------------------------- backupTar

\* mutant: the entry gets another name than the one restoreTar looks for
TarEntryNameOther == "backup.json"

\* backupTar: the Name of the tar header
TarEntryName == "container.json"

\* the Size of the tar header
HeaderSize(payload) == Len(payload)

\* backupTar: json.MarshalIndent, os.Create(filename + ".tar"), tar.NewWriter
TarCreate ==
    /\ pc = "backupTar"
    /\ b' = Marshal(backup)
    /\ \/ /\ pc' = "return" /\ err' = "create failed"
          /\ UNCHANGED <<disk, written>>
       \/ /\ disk' = Put(filename \o ExtTar, TarFile(<<>>, "open"))
          /\ written' = Forget(filename \o ExtTar)
          /\ pc' = "tarHeader" /\ UNCHANGED err
    /\ UNCHANGED <<run, cmd, flags, batch, ID, conf, catalog, imageName,
                   filename, backup, restoring, calls, launched, stdout, result>>

\* backupTar: tw.WriteHeader(th)
TarWriteHeader ==
    /\ pc = "tarHeader"
    /\ \/ /\ pc' = "return" /\ err' = "write header failed"
          /\ UNCHANGED disk
       \/ /\ disk' = Put(filename \o ExtTar,
                         TarFile(<<TarEntry(TarEntryName, HeaderSize(b), <<>>)>>,
                                 "open"))
          /\ pc' = "tarWrite" /\ UNCHANGED err
    /\ UNCHANGED <<run, cmd, flags, batch, ID, conf, catalog, imageName,
                   filename, backup, b, restoring, calls, launched, stdout,
                   result, written>>

\* backupTar: tw.Write(b); the writer takes no more than the header's Size
TarWrite ==
    /\ pc = "tarWrite"
    /\ LET f == filename \o ExtTar
           e == disk[f].entries[1]
           n == IF Len(b) < e.size THEN Len(b) ELSE e.size
       IN  \/ /\ pc' = "return" /\ err' = "write failed"
              /\ UNCHANGED disk
           \/ /\ disk' = Put(f, TarFile(<<TarEntry(e.name, e.size, SubSeq(b, 1, n))>>,
                                        "open"))
              /\ IF Len(b) > e.size
                 THEN pc' = "return" /\ err' = "write too long"
                 ELSE pc' = "tarClose" /\ UNCHANGED err
    /\ UNCHANGED <<run, cmd, flags, batch, ID, conf, catalog, imageName,
                   filename, backup, b, restoring, calls, launched, stdout,
                   result, written>>

\* backupTar: tw.Close(), whose error is dropped; "Created backup:"; return nil
TarClose ==
    /\ pc = "tarClose"
    /\ LET f == filename \o ExtTar
           e == disk[f].entries[1]
       IN  \/ /\ Len(e.data) = e.size
              /\ disk' = Put(f, TarFile(disk[f].entries, "closed"))
              /\ written' = (f :> backup) @@ written
           \/ /\ \E t \in {"open", "padded"} :
                    disk' = Put(f, TarFile(disk[f].entries, t))
              /\ UNCHANGED written
    /\ stdout' = Append(stdout, filename \o ExtTar)
    /\ pc' = "return" /\ err' = "nil"
    /\ UNCHANGED <<run, cmd, flags, batch, ID, conf, catalog, imageName,
                   filename, backup, b, restoring, calls, launched, result>>

\* ------------------------------------------------- backup, plain JSON

\* backup: json.MarshalIndent, ioutil.WriteFile(filename + ".backup.json")
WriteJSON ==
    /\ pc = "writeJSON"
    /\ b' = Marshal(backup)
    /\ \/ /\ pc' = "return" /\ err' = "write failed"
          /\ \/ UNCHANGED disk
             \/ disk' = Put(filename \o ExtJSON, PlainFile(<<>>))
          /\ written' = Forget(filename \o ExtJSON)
       \/ /\ disk' = Put(filename \o ExtJSON, PlainFile(b'))
          /\ written' = (filename \o ExtJSON :> backup) @@ written
          /\ pc' = "createFilelist" /\ UNCHANGED err
    /\ UNCHANGED <<run, cmd, flags, batch, ID, conf, catalog, imageName,
                   filename, backup, restoring, calls, launched, stdout, result>>

\* backup: os.Create(filename + ".backup.files")
CreateFilelist ==
    /\ pc = "createFilelist"
    /\ \/ /\ pc' = "return" /\ err' = "create failed"
          /\ UNCHANGED disk
       \/ /\ disk' = Put(filename \o ExtFiles, PlainFile(<<>>))
          /\ pc' = "writeFilelist" /\ UNCHANGED err
    /\ UNCHANGED <<run, cmd, flags, batch, ID, conf, catalog, imageName,
                   filename, backup, b, restoring, calls, launched, stdout,
                   result, written>>

\* backup: filelist.WriteString(filename + ".backup.json\n"); paths is empty
WriteFilelist ==
    /\ pc = "writeFilelist"
    /\ \/ /\ pc' = "return" /\ err' = "write failed"
          /\ UNCHANGED disk
       \/ /\ disk' = Put(filename \o ExtFiles,
                         PlainFile(filename \o ExtJSON \o <<"\n">>))
          /\ pc' = "launch" /\ UNCHANGED err
    /\ UNCHANGED <<run, cmd, flags, batch, ID, conf, catalog, imageName,
                   filename, backup, b, restoring, calls, launched, stdout,
                   result, written>>

\* mutant: %list is left in the command line
LaunchLineTagOnly(template, stem) ==
    Replace(template, <<"%", "t", "a", "g">>, stem)

\* the command line of the launch hook
LaunchLine(template, stem) ==
    Replace(Replace(template, <<"%", "t", "a", "g">>, stem),
            <<"%", "l", "i", "s", "t">>, stem \o ExtFiles)

\* whether backup runs the hook at all
Launches == optLaunch # <<>>

\* backup: "Created backup:", then exec.Command(l[0], l[1:]...).Run()
PrintAndLaunch ==
    /\ pc = "launch"
    /\ stdout' = Append(stdout, filename \o ExtJSON)
    /\ \/ /\ ~Launches
          /\ err' = "nil" /\ UNCHANGED launched
       \/ /\ Launches
          /\ \E ok \in BOOLEAN :
               /\ launched' = Append(launched,
                      [stem |-> filename, ok |-> ok,
                       argv |-> Split(LaunchLine(optLaunch, filename), " ")])
               /\ err' = IF ok THEN "nil" ELSE "exit status 1"
    /\ pc' = "return"
    /\ UNCHANGED <<run, cmd, flags, disk, batch, ID, conf, catalog, imageName,
                   filename, backup, b, restoring, calls, result, written>>

\* mutant: collect and continue
GoesOnAlways(e) == TRUE

\* whether the loop of backupAll goes on after backup returned e
GoesOn(e) == e = "nil"

\* backup returns: to backupCmd.RunE, or into the loop of backupAll
BackupReturn ==
    /\ pc = "return"
    /\ IF ~optAll
       THEN pc' = "done" /\ result' = err /\ UNCHANGED <<i, ID>>
       ELSE IF ~GoesOn(err)
       THEN pc' = "done" /\ result' = err /\ UNCHANGED <<i, ID>>
       ELSE IF i < Len(containers)
       THEN pc' = "backup" /\ i' = i + 1 /\ ID' = containers[i + 1]
            /\ UNCHANGED result
       ELSE pc' = "done" /\ result' = "nil" /\ UNCHANGED <<i, ID>>
    /\ UNCHANGED <<run, cmd, flags, disk, containers, conf, catalog, imageName,
                   filename, backup, b, restoring, calls, launched, stdout,
                   err, written>>

\* ----------------------------------------------------------- restore

ForeignTarPath == <<"f", ".tar">>
ForeignJSONPath == <<"f", ".json">>
OtherPath == <<"f", ".txt">>

\* the files a restore can be handed: those of the working directory and,
\* for the first command of a behaviour, any file at all or none
Handed ==
    {<<p, Ptr(disk[p])>> : p \in DOMAIN disk}
    \cup (IF run > 0 THEN {}
          ELSE {<<ForeignTarPath, Ptr(t)>> : t \in ForeignTars}
               \cup {<<ForeignJSONPath, Ptr(j)>> : j \in ForeignJSONs}
               \cup {<<ForeignTarPath, Nil>>, <<ForeignJSONPath, Nil>>,
                     <<OtherPath, Nil>>})

\* the function restoreCmd.RunE hands the path to
Dispatch(path) ==
    IF HasSuffix(path, <<".json">>) THEN "restore"
    ELSE IF HasSuffix(path, <<".tar">>) THEN "restoreTar"
    ELSE "unknown"

\* restoreCmd.RunE
InvokeRestore ==
    /\ pc \in {"idle", "done"} /\ run < MaxRuns
    /\ run' = run + 1 /\ cmd' = "restore"
    /\ optAll' = FALSE /\ optTar' = FALSE /\ optLaunch' = <<>> /\ ID' = ""
    /\ Fresh
    /\ \E s \in BOOLEAN :
         /\ optStart' = s
         /\ \/ /\ run = 0
               /\ args' = <<>> /\ filename' = <<>> /\ file' = Nil
               /\ pc' = "done"
               /\ result' = "restore requires a .json or .tar backup"
            \/ \E h \in Handed :
                 /\ args' = <<h[1]>> /\ filename' = h[1] /\ file' = h[2]
                 /\ IF Dispatch(h[1]) = "unknown"
                    THEN pc' = "done" /\ result' = "unknown file type"
                    ELSE pc' = Dispatch(h[1]) /\ result' = "none"
    /\ UNCHANGED <<disk, written>>

\* restoreTar: os.Open, tar.NewReader
RestoreOpenTar ==
    /\ pc = "restoreTar"
    /\ IF file = Nil
       THEN pc' = "done" /\ result' = "open failed"
       ELSE pc' = "tarNext" /\ UNCHANGED result
    /\ UNCHANGED <<run, cmd, flags, disk, batch, ID, conf, catalog, imageName,
                   filename, backup, b, restoring, calls, launched, stdout,
                   err, written>>

\* whether the loop of restoreTar reads the entry named name
ReadsEntry(name) == name = "container.json"

\* restoreTar: one turn of the loop: tr.Next(), and ioutil.ReadAll(tr) for
\* the entry named container.json
RestoreTarNext ==
    /\ pc = "tarNext"
    /\ LET es == file[1].entries
           tl == file[1].tail
       IN  IF tr < Len(es)
           THEN IF ReadsEntry(es[tr + 1].name)
                THEN IF Len(es[tr + 1].data) < es[tr + 1].size
                     THEN pc' = "done" /\ result' = "unexpected EOF"
                          /\ UNCHANGED <<tr, b>>
                     ELSE pc' = pc /\ b' = es[tr + 1].data /\ tr' = tr + 1
                          /\ UNCHANGED result
                ELSE pc' = pc /\ tr' = tr + 1 /\ UNCHANGED <<b, result>>
           ELSE IF tl \in {"closed", "padded"} \/ (tl = "open" /\ es = <<>>)
                THEN pc' = "unmarshal" /\ UNCHANGED <<tr, b, result>>
                ELSE pc' = "done" /\ result' = "tar error"
                     /\ UNCHANGED <<tr, b>>
    /\ UNCHANGED <<run, cmd, flags, disk, batch, ID, conf, catalog, imageName,
                   filename, backup, id, cstate, file, calls, launched, stdout,
                   err, written>>

\* restore: ioutil.ReadFile
RestoreReadFile ==
    /\ pc = "restore"
    /\ IF file = Nil
       THEN pc' = "done" /\ result' = "open failed" /\ UNCHANGED b
       ELSE pc' = "unmarshal" /\ b' = file[1].data /\ UNCHANGED result
    /\ UNCHANGED <<run, cmd, flags, disk, batch, ID, conf, catalog, imageName,
                   filename, backup, restoring, calls, launched, stdout,
                   err, written>>

\* mutant: the error of json.Unmarshal is dropped
RestoreUnmarshalIgnoringError ==
    /\ pc = "unmarshal"
    /\ pc' = "createContainer"
    /\ backup' = IF Unmarshal(b).ok THEN Unmarshal(b).v ELSE ZeroBackup
    /\ UNCHANGED <<run, cmd, flags, disk, batch, ID, conf, catalog, imageName,
                   filename, b, restoring, calls, launched, stdout, err,
                   result, written>>

\* restore, restoreTar: json.Unmarshal(b, &backup)
RestoreUnmarshal ==
    /\ pc = "unmarshal"
    /\ IF Unmarshal(b).ok
       THEN pc' = "createContainer" /\ backup' = Unmarshal(b).v
            /\ UNCHANGED result
       ELSE pc' = "done" /\ result' = "unmarshal failed" /\ UNCHANGED backup
    /\ UNCHANGED <<run, cmd, flags, disk, batch, ID, conf, catalog, imageName,
                   filename, b, restoring, calls, launched, stdout, err,
                   written>>

\* createContainer: the container name
ContainerName(name) == LET nameparts == Split(name, "/")
                       IN  nameparts[Len(nameparts)]

\* mutant: a network configuration is built for every record
NetworkConfigAlways(networkSettings) ==
    LET nw == IF networkSettings = Nil THEN Nil
              ELSE networkSettings[1].Networks
    IN  Ptr([EndpointsConfig |->
                IF nw = Nil THEN <<>> ELSE [k \in DOMAIN nw[1] |-> nw[1][k]]])

\* createContainer: the network configuration
NetworkConfig(networkSettings) ==
    IF networkSettings # Nil
    THEN LET nw == networkSettings[1].Networks
             ep == IF nw = Nil THEN <<>>
                   ELSE [k \in DOMAIN nw[1] |-> nw[1][k]]
         IN  Ptr([EndpointsConfig |-> ep])
    ELSE Nil

\* the IDs the runtime gives new containers
NewIDs == {"n1", "n2"}

\* createContainer: cli.ContainerCreate
CreateContainer ==
    /\ pc = "createContainer"
    /\ LET input == [config |-> backup.Config, hostConfig |-> backup.HostConfig,
                  networkConfig |-> NetworkConfig(backup.NetworkSettings),
                  platform |-> Nil, name |-> ContainerName(backup.Name)]
       IN  \/ /\ calls' = Append(calls, [op |-> "create", ok |-> FALSE,
                                         id |-> "", input |-> Ptr(input)])
              /\ pc' = "done" /\ result' = "failed to create container"
              /\ UNCHANGED <<id, cstate>>
           \/ \E new \in NewIDs :
                /\ calls' = Append(calls, [op |-> "create", ok |-> TRUE,
                                           id |-> new, input |-> Ptr(input)])
                /\ id' = new /\ cstate' = "created"
                /\ pc' = "mounts" /\ UNCHANGED result
    /\ UNCHANGED <<run, cmd, flags, disk, batch, ID, conf, catalog, imageName,
                   filename, backup, b, tr, file, launched, stdout, err,
                   written>>

\* createContainer after the creation: the old mounts of backup.HostConfig
\* (a nil HostConfig panics), cli.ContainerInspect, the new mounts
PrintMounts ==
    /\ pc = "mounts"
    /\ IF backup.HostConfig = Nil
       THEN pc' = "done" /\ result' = "panic" /\ UNCHANGED calls
       ELSE \/ /\ calls' = Append(calls, Call("inspect", FALSE, id))
               /\ pc' = "done" /\ result' = "inspect failed"
            \/ /\ calls' = Append(calls, Call("inspect", TRUE, id))
               /\ pc' = "created" /\ UNCHANGED result
    /\ UNCHANGED <<run, cmd, flags, disk, batch, ID, conf, catalog, imageName,
                   filename, backup, b, restoring, launched, stdout, err,
                   written>>

\* mutant: the start flag is not looked at
StartsAlways == TRUE

\* whether restore starts the container it created
Starts == optStart

\* restore, restoreTar: if optStart, startContainer(id): cli.ContainerStart
RestoreStart ==
    /\ pc = "created"
    /\ \/ /\ ~Starts
          /\ pc' = "done" /\ result' = "nil" /\ UNCHANGED <<calls, cstate>>
       \/ /\ Starts
          /\ calls' = Append(calls, Call("start", FALSE, id))
          /\ pc' = "done" /\ result' = "start failed" /\ UNCHANGED cstate
       \/ /\ Starts
          /\ calls' = Append(calls, Call("start", TRUE, id))
          /\ cstate' = "running"
          /\ pc' = "done" /\ result' = "nil"
    /\ UNCHANGED <<run, cmd, flags, disk, batch, ID, conf, catalog, imageName,
                   filename, backup, b, tr, id, file, launched, stdout, err,
                   written>>

\* ------------------------------------------------------ the specification

Next ==
    \/ InvokeBackup \/ BackupAllList \/ BackupInspect \/ GetFullImageName
    \/ BackupAssemble \/ TarCreate \/ TarWriteHeader \/ TarWrite \/ TarClose
    \/ WriteJSON \/ CreateFilelist \/ WriteFilelist \/ PrintAndLaunch
    \/ BackupReturn
    \/ InvokeRestore \/ RestoreOpenTar \/ RestoreTarNext \/ RestoreReadFile
    \/ RestoreUnmarshal \/ CreateContainer \/ PrintMounts \/ RestoreStart

Spec == Init /\ [][Next]_vars

\* ------------------------------------------------------------ properties

Restoring == cmd = "restore"
BackingUp == cmd = "backup"

ArgErrors == {"restore requires a .json or .tar backup", "unknown file type"}
ReadErrors == {"open failed", "unexpected EOF", "tar error", "unmarshal failed"}

\* the restore has read its artifact and holds the decoded record
Decoded ==
    /\ Restoring
    /\ \/ pc \in {"createContainer", "mounts", "created"}
       \/ pc = "done" /\ result \notin ArgErrors \cup ReadErrors

Creates == {k \in 1..Len(calls) : calls[k].op = "create"}
StartCalls == {k \in 1..Len(calls) : calls[k].op = "start"}

\* C1: an artifact that the writer wrote in full, plain JSON or tar, is read
\* back by restore without a read error, and the record restore decodes from
\* it equals the record that was written, field for field.
C1_RoundTrip ==
    (Restoring /\ filename \in DOMAIN written)
        => /\ pc = "done" => result \notin ReadErrors \cup ArgErrors
           /\ Decoded => backup = written[filename]

C1_Witness ==
    /\ Restoring /\ pc = "createContainer"
    /\ filename \in DOMAIN written
    /\ HasSuffix(filename, ExtTar)
    /\ backup.NetworkSettings = Nil
    /\ backup.Name # <<>>

\* C3: start is called only with the start flag set, only after a successful
\* create and on the ID it returned; after a failed create there is no start
\* and the restore returns the creation error; after a failed start the
\* restore returns the start error, start is the last runtime call, and the
\* container stays created.
C3_StartOnlyAfterCreate ==
    Restoring =>
        /\ \A k \in StartCalls :
              /\ optStart
              /\ \E j \in Creates : j < k /\ calls[j].ok /\ calls[j].id = calls[k].id
        /\ (pc = "done" /\ \E j \in Creates : ~calls[j].ok)
              => result = "failed to create container" /\ StartCalls = {}
        /\ (pc = "done" /\ \E k \in StartCalls : ~calls[k].ok)
              => /\ result = "start failed"
                 /\ calls[Len(calls)].op = "start"
                 /\ cstate = "created"

C3_Witness ==
    /\ Restoring /\ pc = "done" /\ result = "start failed"
    /\ cstate = "created"

\* C4: a restore with the start flag set whose creation call succeeded has
\* called start on the new container when it ends (stated for the records
\* that have a HostConfig, whose mounts the printout can read).
C4_StartFollowsCreate ==
    (Restoring /\ pc = "done" /\ optStart /\ backup.HostConfig # Nil)
        => \A j \in Creates :
              calls[j].ok => \E k \in StartCalls : k > j /\ calls[k].id = calls[j].id

\* C5: the creation call gets the record's Config and HostConfig, the last
\* "/"-separated part of its Name, no platform, and a network configuration
\* that is nil exactly when NetworkSettings is nil and otherwise maps the keys
\* of Networks to their values; a decoded record without NetworkSettings is
\* handed to the creation call, and its restore fails only if a runtime call
\* fails or the record has no HostConfig.
C5_CreationArguments ==
    Restoring =>
        /\ \A j \in Creates :
              LET in == calls[j].input[1]
                  ns == backup.NetworkSettings
              IN  /\ in.config = backup.Config
                  /\ in.hostConfig = backup.HostConfig
                  /\ in.platform = Nil
                  /\ ~Contains(in.name, <<"/">>)
                  /\ \/ backup.Name = in.name
                     \/ HasSuffix(backup.Name, <<"/">> \o in.name)
                  /\ in.networkConfig = Nil <=> ns = Nil
                  /\ ns # Nil =>
                        LET ep == in.networkConfig[1].EndpointsConfig
                            nw == ns[1].Networks
                        IN  /\ nw = Nil => DOMAIN ep = {}
                            /\ nw # Nil =>
                                  /\ DOMAIN ep = DOMAIN nw[1]
                                  /\ \A n \in DOMAIN ep : ep[n] = nw[1][n]
        /\ (Decoded /\ pc = "done" /\ backup.NetworkSettings = Nil)
              => /\ Creates # {}
                 /\ \/ result = "nil"
                    \/ \E k \in 1..Len(calls) : ~calls[k].ok
                    \/ backup.HostConfig = Nil

C5_Witness ==
    /\ Restoring /\ pc = "done" /\ result = "nil"
    /\ backup.NetworkSettings = Nil
    /\ backup.Name = <<"a", "/", "b">>
    /\ \E j \in Creates : calls[j].input[1].networkConfig = Nil

\* the container a file of the working directory belongs to: the part of
\* its name before the extension
Owner(f) == f[CHOOSE k \in 1..(Len(f) - 1) : f[k + 1] \in {".backup", ".tar"}]

InspectCalls == SelectSeq(calls, LAMBDA c : c.op = "inspect")

\* C2: backupAll takes the listed containers one at a time in list order:
\* the containers inspected so far are the first i of the list and every
\* file belongs to one of them; when backup of the i-th returns an error the
\* command ends at once with that error, without another runtime call and
\* without touching a file; and no step of a backup changes or removes a
\* file of another container.
C2_StopsAtFirstFailure ==
    [][(BackingUp /\ optAll /\ BackingUp')
        => /\ (pc' \in {"getFullImageName", "write", "return", "done"} /\ i' > 0)
                => /\ [k \in 1..Len(InspectCalls') |-> InspectCalls'[k].id]
                         = SubSeq(containers', 1, i')
                   /\ \A f \in DOMAIN disk' :
                         \E k \in 1..i' : Owner(f) = containers'[k]
           /\ (pc = "return" /\ err # "nil")
                => /\ pc' = "done" /\ result' = err
                   /\ UNCHANGED <<disk, calls, i, stdout, launched>>
           /\ \A f \in DOMAIN disk :
                 Owner(f) # ID' => f \in DOMAIN disk' /\ disk'[f] = disk[f]
           /\ (pc' = "done" /\ result' \notin {"nil", "panic"})
                => \A k \in 1..(i' - 1) :
                      \E f \in DOMAIN disk' :
                         /\ Owner(f) = containers'[k]
                         /\ \E n \in 1..Len(stdout') : stdout'[n] = f]_vars

C2_Witness ==
    /\ BackingUp /\ optAll /\ pc = "done" /\ result = "write failed"
    /\ i = 2 /\ Len(containers) >= 2
    /\ \E f \in DOMAIN written : Owner(f) = containers[1]

\* the result of getFullImageName, once it has returned without an error
Resolved == conf[1].Config[1].Image
Matching == {k \in 1..Len(catalog) : Contains(imageName, catalog[k].ID)}
Closer(k) == {j \in 1..Len(catalog[k].RepoTags) :
                 Contains(catalog[k].RepoTags[j], imageName)}
Min(S) == CHOOSE x \in S : \A y \in S : x <= y

\* C6 as stated: for every reference and every image list, an entry whose
\* ID matches and that has a tag containing the reference makes the result
\* such a tag; matching entries with tags of which none contains the
\* reference make the result the first tag of one; no matching entry leaves
\* the input unchanged.
C6_AnyReference ==
    (BackingUp /\ pc = "write") =>
        /\ (\E k \in Matching : Closer(k) # {})
              => \E k \in Matching : \E j \in Closer(k) :
                    Resolved = catalog[k].RepoTags[j]
        /\ (/\ \E k \in Matching : catalog[k].RepoTags # <<>>
            /\ \A k \in Matching : Closer(k) = {})
              => \E k \in Matching :
                    /\ catalog[k].RepoTags # <<>>
                    /\ Resolved = catalog[k].RepoTags[1]
        /\ Matching = {} => Resolved = imageName

\* C6 amended: a reference containing ":" is returned unchanged; otherwise,
\* when the image list is obtained, the first entry whose ID occurs in the
\* reference and that has a tag decides: the result is the first of its tags
\* that contains the reference, or its first tag when none does; without
\* such an entry the result is the input.
C6_FirstTaggedMatchDecides ==
    (BackingUp /\ pc = "write") =>
        IF Contains(imageName, <<":">>) THEN Resolved = imageName
        ELSE LET tagged == {k \in Matching : catalog[k].RepoTags # <<>>}
             IN  IF tagged = {} THEN Resolved = imageName
                 ELSE LET k == Min(tagged)
                      IN  IF Closer(k) = {}
                          THEN Resolved = catalog[k].RepoTags[1]
                          ELSE Resolved = catalog[k].RepoTags[Min(Closer(k))]

C6_Witness ==
    /\ BackingUp /\ pc = "write"
    /\ ~Contains(imageName, <<":">>)
    /\ Len(catalog) = 2
    /\ catalog[1].ID = <<"n">> /\ catalog[1].RepoTags = <<>>
    /\ catalog[2].ID = <<"i">> /\ catalog[2].RepoTags = <<TagQ, TagNI>>
    /\ Resolved = TagNI

\* the artifact of the backup in hand is on disk in full
Complete ==
    IF optTar
    THEN /\ filename \o ExtTar \in DOMAIN disk
         /\ disk[filename \o ExtTar] =
               TarFile(<<TarEntry("container.json", Len(Marshal(backup)),
                                  Marshal(backup))>>, "closed")
    ELSE /\ filename \o ExtJSON \in DOMAIN disk
         /\ disk[filename \o ExtJSON] = PlainFile(Marshal(backup))
         /\ filename \o ExtFiles \in DOMAIN disk
         /\ disk[filename \o ExtFiles] =
               PlainFile(filename \o ExtJSON \o <<"\n">>)

\* C7: a backup that returns nil, or that has printed "Created backup:" for
\* its artifact, has written that artifact in full.
C7_SuccessMeansWritten ==
    (BackingUp /\ pc = "return")
        => /\ err = "nil" => Complete
           /\ \A n \in 1..Len(stdout) :
                 Owner(stdout[n]) = ID => Complete

\* what makes an artifact unreadable: a path that is neither .json nor .tar,
\* no file, a tar stream that breaks off or runs into garbage, a tar without
\* a readable entry named container.json, JSON that does not parse
Unreadable ==
    \/ Dispatch(filename) = "unknown"
    \/ file = Nil
    \/ /\ Dispatch(filename) = "restore"
       /\ ~Unmarshal(file[1].data).ok
    \/ /\ Dispatch(filename) = "restoreTar"
       /\ LET es == file[1].entries
              cj == {k \in 1..Len(es) : es[k].name = "container.json"}
          IN  \/ file[1].tail = "garbage"
              \/ file[1].tail = "open" /\ es # <<>>
              \/ cj = {}
              \/ \A k \in cj : ~Unmarshal(es[k].data).ok

\* C8: a restore without an argument or of an unreadable artifact makes no
\* runtime call, creates nothing, and ends with an error.
C8_NoCallWithoutArtifact ==
    (Restoring /\ (args = <<>> \/ Unreadable))
        => /\ calls = <<>> /\ cstate = "none"
           /\ pc = "done" => result \in ArgErrors \cup ReadErrors

C8_Witness ==
    /\ Restoring /\ pc = "done" /\ result = "unmarshal failed"
    /\ Dispatch(filename) = "restoreTar"
    /\ \A k \in 1..Len(file[1].entries) : file[1].entries[k].name # "container.json"
    /\ file[1].entries # <<>>

RECURSIVE Substituted(_, _)
\* a template with each %tag and each %list replaced, left to right
Substituted(t, stem) ==
    IF t = <<>> THEN <<>>
    ELSE IF Len(t) >= 4 /\ SubSeq(t, 1, 4) = <<"%", "t", "a", "g">>
         THEN stem \o Substituted(SubSeq(t, 5, Len(t)), stem)
    ELSE IF Len(t) >= 5 /\ SubSeq(t, 1, 5) = <<"%", "l", "i", "s", "t">>
         THEN stem \o ExtFiles \o Substituted(SubSeq(t, 6, Len(t)), stem)
    ELSE <<Head(t)>> \o Substituted(Tail(t), stem)

\* both files of the plain-JSON backup of stem are on disk in full
BothWritten(stem) ==
    /\ stem \o ExtJSON \in DOMAIN disk
    /\ disk[stem \o ExtJSON] = PlainFile(Marshal(backup))
    /\ stem \o ExtFiles \in DOMAIN disk
    /\ disk[stem \o ExtFiles] = PlainFile(stem \o ExtJSON \o <<"\n">>)

\* C9: every launch belongs to a backup with a template and without --tar,
\* and runs the words of the template with %tag and %list replaced; a backup
\* that returns has launched, once, exactly if a template is set, --tar is
\* not, and both of its files are written in full, and then it returns the
\* command's result.
C9_LaunchAfterPlainBackup ==
    BackingUp =>
        /\ \A n \in 1..Len(launched) :
              /\ optLaunch # <<>> /\ ~optTar
              /\ launched[n].argv =
                    Split(Substituted(optLaunch, launched[n].stem), " ")
              /\ launched[n].stem \o ExtFiles \in DOMAIN disk
        /\ pc = "return"
              => LET mine == {n \in 1..Len(launched) :
                                Owner(launched[n].stem \o ExtFiles) = ID}
                 IN  /\ mine # {} <=>
                           /\ optLaunch # <<>> /\ ~optTar
                           /\ filename # <<>> /\ Owner(filename \o ExtFiles) = ID
                           /\ BothWritten(filename)
                     /\ Cardinality(mine) <= 1
                     /\ \A n \in mine :
                           err = IF launched[n].ok THEN "nil" ELSE "exit status 1"

C9_Witness ==
    /\ BackingUp /\ pc = "return" /\ err = "exit status 1"
    /\ Len(launched) = 1
    /\ launched[1].argv = <<<<"n">>, filename, filename \o ExtFiles, filename>>

\* the first entry named container.json, 0 if there is none
FirstContainerJSON ==
    LET es == file[1].entries
        cj == {k \in 1..Len(es) : es[k].name = "container.json"}
    IN  IF cj = {} THEN 0 ELSE Min(cj)

\* C10: a restore from a tar that has an entry named container.json restores
\* the record of the first such entry, and whether it gets as far as the
\* runtime depends on that entry alone.
C10_FirstEntryDecides ==
    (/\ Restoring /\ Dispatch(filename) = "restoreTar" /\ file # Nil
     /\ FirstContainerJSON > 0)
        => LET first == file[1].entries[FirstContainerJSON]
           IN  /\ Decoded => /\ Unmarshal(first.data).ok
                              /\ backup = Unmarshal(first.data).v
               /\ (pc = "done" /\ Unmarshal(first.data).ok
                   /\ Len(first.data) = first.size)
                     => result \notin ReadErrors

====
